---- MODULE Spec2Model ----
(***************************************************************************)
(* Metadata extraction dispatch engine of Locard.IA:                       *)
(*   metadata/metadata_router.py  (router and population driver)           *)
(*   metadata/*_metadata.py       (populate wrappers of the extractors)    *)
(*   working_DB/initial_scan.py   (origin of decl_extension)               *)
(*   metadata/Magic_Scan.py       (type sniffing, origin of true_extension)*)
(*                                                                         *)
(* Strings are sequences of one-character strings, so that lower(),        *)
(* strip(), startswith() and basename() are computed, not assumed.         *)
(* Status strings are sequences of tokens (the literal parts of the        *)
(* f-string and the interpolated values).                                  *)
(* An optional value is a tuple: <<>> is None, <<v>> is the value v.       *)
(***************************************************************************)
EXTENDS Integers, Sequences, FiniteSets, TLC

\* ------------------------------------------------------------------ bounds
MaxFiles == 2

MaxRuns == 2

MaxVersion == 2

\* longest content handed to an extractor in the excerpt checks
MaxText == 1001

\* ------------------------------------------------------------ optionals
None == <<>>

Some(v) == <<v>>

IsNone(o) == Len(o) = 0

Val(o) == o[1]

\* -------------------------------------------------------------- strings
UpperAlpha == <<"A","B","C","D","E","F","G","H","I","J","K","L","M",
                "N","O","P","Q","R","S","T","U","V","W","X","Y","Z">>

LowerAlpha == <<"a","b","c","d","e","f","g","h","i","j","k","l","m",
                "n","o","p","q","r","s","t","u","v","w","x","y","z">>

LowerChar(c) ==
    IF \E k \in 1..26 : UpperAlpha[k] = c
    THEN LowerAlpha[CHOOSE k \in 1..26 : UpperAlpha[k] = c]
    ELSE c

\* str.lower()
Lower(s) == [k \in 1..Len(s) |-> LowerChar(s[k])]

IsSpace(c) == c = " "

RECURSIVE LStrip(_)
LStrip(s) == IF Len(s) > 0 /\ IsSpace(Head(s)) THEN LStrip(Tail(s)) ELSE s

RECURSIVE RStrip(_)
RStrip(s) ==
    IF Len(s) > 0 /\ IsSpace(s[Len(s)]) THEN RStrip(SubSeq(s, 1, Len(s) - 1)) ELSE s

\* str.strip()
Strip(s) == RStrip(LStrip(s))

\* str.startswith(p)
StartsWith(s, p) == Len(s) >= Len(p) /\ SubSeq(s, 1, Len(p)) = p

\* os.path.basename: what follows the last "/"
RECURSIVE Basename(_)
Basename(p) ==
    IF \E k \in 1..Len(p) : p[k] = "/"
    THEN Basename(SubSeq(p, (CHOOSE k \in 1..Len(p) : p[k] = "/") + 1, Len(p)))
    ELSE p

\* Python truthiness of an optional string: None and "" are falsy
Truthy(o) == ~IsNone(o) /\ Len(Val(o)) > 0

\* ------------------------------------------------------- routing tables
Families == {"image", "pdf", "office", "video", "text", "code", "data"}

\* populate_func.__module__ of each family's populate function
ModuleOf(fam) ==
    CASE fam = "image"  -> "metadata.image_metadata"
      [] fam = "pdf"    -> "metadata.pdf_metadata"
      [] fam = "office" -> "metadata.office_metadata"
      [] fam = "video"  -> "metadata.video_metadata"
      [] fam = "text"   -> "metadata.text_metadata"
      [] fam = "code"   -> "metadata.sourcecode_metadata"
      [] fam = "data"   -> "metadata.tabulardata_metadata"

\* The entries of META_ROUTER the modelled index can hit (a key that is
\* absent here is absent from the source table as well, except for keys
\* no file handed to the driver produces; the files of the Magic scan on
\* its own, some of which get '.zip', are not handed to the driver).
ExtensionKeys ==
    [image  |-> { <<".","j","p","g">>, <<".","p","n","g">> },
     pdf    |-> { <<".","p","d","f">> },
     office |-> { <<".","d","o","c","x">>, <<".","x","l","s","x">> },
     video  |-> { <<".","m","p","4">> },
     text   |-> { <<".","t","x","t">> },
     code   |-> { <<".","s","h">>, <<".","p","y">> },
     data   |-> { <<".","c","s","v">> }]

LiteralNameKeys ==
    [image  |-> {},
     pdf    |-> {},
     office |-> {},
     video  |-> {},
     text   |-> { <<"l","i","c","e","n","s","e">>, <<"r","e","a","d","m","e">> },
     code   |-> { <<"m","a","k","e","f","i","l","e">>,
                  <<"r","e","q","u","i","r","e","m","e","n","t","s",".","t","x","t">> },
     data   |-> {}]

RouterKeys == UNION { ExtensionKeys[f] \cup LiteralNameKeys[f] : f \in Families }

\* META_ROUTER.get(key): the family whose populate function is registered, or None
META_ROUTER(key) ==
    IF key \in RouterKeys
    THEN Some(CHOOSE f \in Families : key \in ExtensionKeys[f] \cup LiteralNameKeys[f])
    ELSE None

IGNORED_FILES ==
    { <<".","d","s","_","s","t","o","r","e">>,
      <<"t","h","u","m","b","s",".","d","b">>,
      <<"d","e","s","k","t","o","p",".","i","n","i">>,
      <<".","m","e","t","a","d","a","t","a">>,
      <<".","g","i","t","i","g","n","o","r","e">>,
      <<"r","e","c","o","r","d">>,
      <<"w","h","e","e","l">> }

\* ------------------------------------------------- the indexed files
\* A FileRecord as the driver reads it (SELECT id, path, true_extension,
\* decl_extension), together with what lies on disk at that path:
\*   fmt   the real format of the bytes,
\*   ok    FALSE when the bytes are truncated or corrupt,
\*   fault the statement of populate at which the Index Store refuses the
\*         write for this file ("none" when it never does).
\* decl_extension is what initial_scan.py stores (ext.lower().lstrip("."),
\* None when the name has no suffix); true_extension is None, "" or a
\* dotted lowercase token of Magic_Scan.py.
Entry(path, true, decl, fmt, ok, fault) ==
    [path |-> path, true_extension |-> true, decl_extension |-> decl,
     fmt |-> fmt, ok |-> ok, fault |-> fault, disk |-> "file"]

\* What os.path.isfile(path) and open(path, "rb") find for an indexed path:
\* "file" (readable), "absent" (deleted or moved since the initial scan),
\* "unreadable" (open raises PermissionError)
OnDisk(e, d) == [e EXCEPT !.disk = d]

Dir == <<"/","d","/">>

Ext_pdf == <<"p","d","f">>

Ext_docx == <<"d","o","c","x">>

Ext_jpg == <<"j","p","g">>

Dot(e) == <<".">> \o e

\* The indexes of the driver checks: stored failures at each statement of
\* populate, an office document, a valid and a corrupt image, and an ignored
\* system file.
Catalogue ==
    { Entry(Dir \o <<"a">> \o Dot(Ext_pdf), None, Some(Ext_pdf), "pdf", TRUE, f)
        : f \in {"none", "update", "commit"} }
    \cup
    { Entry(Dir \o <<"b">> \o Dot(Ext_docx), Some(Dot(Ext_docx)), Some(Ext_docx), "ooxml", TRUE, "none"),
      \* images: a valid one and a corrupt one
      Entry(Dir \o <<"p",".","J","P","G">>, Some(Dot(Ext_jpg)), Some(Ext_jpg), "jpeg", TRUE, "none"),
      Entry(Dir \o <<"q">> \o Dot(Ext_jpg), None, Some(Ext_jpg), "jpeg", FALSE, "none"),
      \* system file of the ignore-list
      Entry(Dir \o <<"T","h","u","m","b","s",".","d","b">>, None, Some(<<"d","b">>), "other", TRUE, "none") }

\* The indexes of the routing checks: every combination of true and
\* declared extension the two scans can leave behind.
RoutingCatalogue ==
    { \* OOXML content under a .pdf name (spoofed extension)
      Entry(Dir \o <<"r">> \o Dot(Ext_pdf), Some(Dot(Ext_docx)), Some(Ext_pdf), "ooxml", TRUE, "none"),
      \* Java class under a .pdf name: true extension without collector
      Entry(Dir \o <<"x">> \o Dot(Ext_pdf), Some(<<".","c","l","a","s","s">>), Some(Ext_pdf), "class", TRUE, "none"),
      \* ELF binary not scanned yet, the name has no suffix
      Entry(Dir \o <<"p","r","o","g">>, None, None, "elf", TRUE, "none"),
      \* "n. txt": the suffix keeps its blank
      Entry(Dir \o <<"n","."," ","t","x","t">>, None, Some(<<" ","t","x","t">>), "text", TRUE, "none"),
      \* literal names, with and without extensions
      Entry(Dir \o <<"L","I","C","E","N","S","E">>, None, None, "text", TRUE, "none"),
      Entry(Dir \o <<"M","a","k","e","f","i","l","e">>, Some(<<".","t","x","t">>), None, "text", TRUE, "insert"),
      Entry(Dir \o <<"r","e","q","u","i","r","e","m","e","n","t","s",".","t","x","t">>,
            Some(<<".","t","x","t">>), Some(<<"t","x","t">>), "text", TRUE, "none"),
      Entry(Dir \o <<"T","h","u","m","b","s",".","d","b">>, None, Some(<<"d","b">>), "other", TRUE, "none"),
      Entry(Dir \o <<"c",".","m","p","4">>, Some(<<".","m","p","4">>), Some(<<"m","p","4">>), "mp4", TRUE, "none"),
      Entry(Dir \o <<"t",".","c","s","v">>, None, Some(<<"c","s","v">>), "csv", TRUE, "none") }

\* --------------------------------------------------------- environment
\* What the driver finds around it, fixed for a whole behaviour:
\*   logWritable  open(log_path, "w") succeeds
\*   missing      the optional parsing library that is not installed
\*   sentinel     the caller's progress_callback may return the stop sentinel
VARIABLE env

Libraries == {"PIL", "pypdf"}

Env(logWritable, missing, sentinel) ==
    [logWritable |-> logWritable, missing |-> missing, sentinel |-> sentinel]

DefaultEnv == Env(TRUE, "none", FALSE)

Environments ==
    { DefaultEnv, Env(FALSE, "none", FALSE), Env(TRUE, "none", TRUE) }
    \cup { Env(TRUE, lib, FALSE) : lib \in Libraries }

\* from PIL import Image, ExifTags
\* The import at the top of image_metadata.py is not guarded: without
\* Pillow the module does not load.
ImageModuleLoads == env.missing # "PIL"

\* try: from pypdf import PdfReader ... except ImportError: HAVE_PYPDF = False
HAVE_PYPDF == env.missing # "pypdf"

\* Lines 7-28: the first import of the try block fails, the handler prints
\* the message, none of the populate names is bound and the dict literal
\* META_ROUTER raises NameError: metadata_router does not load.
RouterLoads == ImageModuleLoads

\* ---------------------------------------------------------- extractors
\* pathlib.Path(path).suffix / os.path.splitext(path)[1]: from the last dot
\* of the basename, "" when there is none or when it is the first character
Suffix(path) ==
    LET b == Basename(path)
        dots == { k \in 1..Len(b) : b[k] = "." }
    IN  IF dots = {} THEN <<>>
        ELSE LET last == CHOOSE k \in dots : \A m \in dots : m <= k
             IN  IF last = 1 THEN <<>> ELSE SubSeq(b, last, Len(b))

\* A TypeMetadataRecord is abstracted to two columns: tech (the technical
\* fields) and text (the excerpts).  A column holds the version of the file
\* content it was extracted from, 0 standing for null / zero.
Rec(tech, text) == [tech |-> tech, text |-> text]

\* The dict an extractor returns: the record, the mime_detected entry, and
\* whether the extractor raised instead of returning.
Meta(rec, mime, raises, err) == [rec |-> rec, mime |-> mime, raises |-> raises, err |-> err]

extract_pdf_metadata_from_path(e, v) ==
    IF HAVE_PYPDF /\ e.fmt = "pdf" /\ e.ok
    THEN Meta(Rec(v, v), Some("application/pdf"), FALSE, "")
    ELSE Meta(Rec(0, 0), Some("application/pdf"), FALSE, "")

extract_text_metadata_from_path(e, v) ==
    Meta(Rec(v, v), Some("text/plain"), FALSE, "")

extract_code_metadata_from_path(e, v) ==
    Meta(Rec(v, v), Some("text/plain"), FALSE, "")

extract_office_metadata_from_path(e, v) ==
    LET ext == Lower(Suffix(e.path))
    IN  IF ext \in { Dot(Ext_docx), <<".","x","l","s","x">>, <<".","p","p","t","x">> }
        THEN IF e.fmt = "ooxml" /\ e.ok
             THEN Meta(Rec(v, 0), None, FALSE, "")
             ELSE Meta(Rec(0, 0), None, FALSE, "")
        ELSE IF ext = Dot(Ext_pdf)
        THEN IF HAVE_PYPDF /\ e.fmt = "pdf" /\ e.ok
             THEN Meta(Rec(v, 0), None, FALSE, "")
             ELSE Meta(Rec(0, 0), None, FALSE, "")
        ELSE Meta(Rec(0, 0), None, FALSE, "")

extract_video_metadata_from_path(e, v) ==
    IF e.fmt = "mp4" /\ e.ok
    THEN Meta(Rec(v, 0), Some("video/mp4"), FALSE, "")
    ELSE Meta(Rec(0, 0), None, FALSE, "")

extract_image_metadata_from_path(e, v) ==
    IF e.fmt = "jpeg" /\ e.ok
    THEN Meta(Rec(v, 0), Some("image/jpeg"), FALSE, "")
    ELSE Meta(Rec(0, 0), None, TRUE, "cannot identify image file")

extract_tabulardata_metadata_from_path(e, v) ==
    Meta(Rec(v, v), Some("text/csv"), FALSE, "")

Extract(fam, e, v) ==
    CASE fam = "image"  -> extract_image_metadata_from_path(e, v)
      [] fam = "pdf"    -> extract_pdf_metadata_from_path(e, v)
      [] fam = "office" -> extract_office_metadata_from_path(e, v)
      [] fam = "video"  -> extract_video_metadata_from_path(e, v)
      [] fam = "text"   -> extract_text_metadata_from_path(e, v)
      [] fam = "code"   -> extract_code_metadata_from_path(e, v)
      [] fam = "data"   -> extract_tabulardata_metadata_from_path(e, v)

\* ------------------------------------------------- populate wrappers
\* The connection works on a view of the Index Store: a statement changes
\* the view, conn.commit() makes the view the stored state, conn.close()
\* without commit drops what the view holds beyond the stored state.
\*   meta[fam][id]  the row of the family table keyed by file_id (None: no row)
\*   mime[id]       file.mime_detected
EmptyStore(n) ==
    [meta |-> [f \in Families |-> [k \in 1..n |-> None]],
     mime |-> [k \in 1..n |-> None]]

\* A write that also removes the rows of the file from the other family tables
InsertOrReplace_Exclusive(vw, fam, id, rec) ==
    [vw EXCEPT !.meta = [f \in Families |->
                           [k \in DOMAIN vw.meta[f] |->
                              IF k # id THEN vw.meta[f][k]
                              ELSE IF f = fam THEN Some(rec) ELSE None]]]

\* A write that adds to the row it finds instead of replacing it
InsertOrReplace_Accumulate(vw, fam, id, rec) ==
    IF IsNone(vw.meta[fam][id]) THEN [vw EXCEPT !.meta[fam][id] = Some(rec)]
    ELSE [vw EXCEPT !.meta[fam][id] =
             Some(Rec(Val(vw.meta[fam][id]).tech + rec.tech, Val(vw.meta[fam][id]).text + rec.text))]

\* INSERT OR REPLACE INTO file_<fam>_metadata (...) VALUES (...)
InsertOrReplace(vw, fam, id, rec) == [vw EXCEPT !.meta[fam][id] = Some(rec)]

\* UPDATE file_image_metadata SET ... WHERE file_id = ?
UpdateRow(vw, fam, id, rec) ==
    IF IsNone(vw.meta[fam][id]) THEN vw ELSE [vw EXCEPT !.meta[fam][id] = Some(rec)]

\* The same statement without its WHERE clause
UpdateMime_NoWhere(vw, id, mime) == [vw EXCEPT !.mime = [k \in DOMAIN vw.mime |-> mime]]

\* UPDATE file SET mime_detected = ? WHERE id = ?
UpdateMime(vw, id, mime) == [vw EXCEPT !.mime[id] = mime]

\* UPDATE file SET mime_detected = ? WHERE id = ? AND (mime_detected IS NULL
\*                                   OR mime_detected = 'application/octet-stream')
UpdateMimeIfUnset(vw, id, mime) ==
    IF IsNone(vw.mime[id]) \/ vw.mime[id] = Some("application/octet-stream")
    THEN [vw EXCEPT !.mime[id] = mime]
    ELSE vw

StoreError == "disk I/O error"

\* What a populate call leaves behind: the view, whether it raised (and the
\* text of the exception), and whether it stands at its conn.commit().
PopResult(vw, raised, err, atCommit) ==
    [view |-> vw, raised |-> raised, err |-> err, atCommit |-> atCommit]

\* SELECT path; extract; INSERT OR REPLACE; UPDATE file; conn.commit()
InsertUpdateCommit(vw, fam, id, e, m) ==
    IF m.raises THEN PopResult(vw, TRUE, m.err, FALSE)
    ELSE IF e.fault = "insert" THEN PopResult(vw, TRUE, StoreError, FALSE)
    ELSE LET v1 == InsertOrReplace(vw, fam, id, m.rec)
         IN  IF e.fault = "update" THEN PopResult(v1, TRUE, StoreError, FALSE)
             ELSE PopResult(UpdateMime(v1, id, m.mime), FALSE, "", TRUE)

populate_pdf_metadata(vw, id, e, v) ==
    InsertUpdateCommit(vw, "pdf", id, e, extract_pdf_metadata_from_path(e, v))

populate_text_metadata(vw, id, e, v) ==
    InsertUpdateCommit(vw, "text", id, e, extract_text_metadata_from_path(e, v))

populate_code_metadata(vw, id, e, v) ==
    InsertUpdateCommit(vw, "code", id, e, extract_code_metadata_from_path(e, v))

\* The INSERT names columns file_data_metadata does not have (format_type,
\* columns_names, ...): the statement is refused when it is prepared.
populate_tabulardata_metadata(vw, id, e, v) ==
    PopResult(vw, TRUE, "table file_data_metadata has no column named format_type", FALSE)

populate_image_metadata(vw, id, e, v) ==
    LET m == extract_image_metadata_from_path(e, v)
    IN  IF m.raises THEN PopResult(vw, TRUE, m.err, FALSE)
        ELSE IF e.fault = "insert" THEN PopResult(vw, TRUE, StoreError, FALSE)
        ELSE LET v1 == UpdateRow(vw, "image", id, m.rec)
             IN  IF e.fault = "update" THEN PopResult(v1, TRUE, StoreError, FALSE)
                 ELSE PopResult(UpdateMime(v1, id, m.mime), FALSE, "", TRUE)

populate_office_metadata(vw, id, e, v) ==
    LET m == extract_office_metadata_from_path(e, v)
    IN  IF m.rec = Rec(0, 0) THEN PopResult(vw, FALSE, "", FALSE)
        ELSE IF e.fault = "insert" THEN PopResult(vw, TRUE, StoreError, FALSE)
        ELSE PopResult(InsertOrReplace(vw, "office", id, m.rec), FALSE, "", TRUE)

populate_video_metadata(vw, id, e, v) ==
    LET m == extract_video_metadata_from_path(e, v)
    IN  IF m.rec.tech = 0 THEN PopResult(vw, FALSE, "", FALSE)
        ELSE IF e.fault = "insert" THEN PopResult(vw, TRUE, StoreError, FALSE)
        ELSE LET v1 == InsertOrReplace(vw, "video", id, m.rec)
             IN  IF IsNone(m.mime) THEN PopResult(v1, FALSE, "", TRUE)
                 ELSE IF e.fault = "update" THEN PopResult(v1, TRUE, StoreError, FALSE)
                 ELSE PopResult(UpdateMimeIfUnset(v1, id, m.mime), FALSE, "", TRUE)

Populate(fam, vw, id, e, v) ==
    CASE fam = "image"  -> populate_image_metadata(vw, id, e, v)
      [] fam = "pdf"    -> populate_pdf_metadata(vw, id, e, v)
      [] fam = "office" -> populate_office_metadata(vw, id, e, v)
      [] fam = "video"  -> populate_video_metadata(vw, id, e, v)
      [] fam = "text"   -> populate_text_metadata(vw, id, e, v)
      [] fam = "code"   -> populate_code_metadata(vw, id, e, v)
      [] fam = "data"   -> populate_tabulardata_metadata(vw, id, e, v)

\* A commit that is left out of the populate function
CommitTx_Missing(stored, vw) == stored

\* conn.commit(): the stored state becomes the view
CommitTx(stored, vw) == vw

\* ------------------------------------------------------- status strings
StatusSuccess(fam) == <<"SUCCESS", " (", ModuleOf(fam), ")">>

StatusError(err) == <<"ERROR", ": ", err>>

\* A missing extension reported as a failure
StatusNoExtension_AsError == <<"ERROR", ": No Extension">>

\* return "SKIPPED (No Extension)"
StatusNoExtension == <<"SKIPPED", " (No Extension)">>

\* A missing collector reported as a failure
StatusNoCollector_AsError == <<"ERROR", ": No Collector">>

\* return "SKIPPED (No Collector)"
StatusNoCollector == <<"SKIPPED", " (No Collector)">>

\* An ignore status worded without the SKIPPED prefix
StatusIgnored_Unprefixed == <<"IGNORED", " (System File)">>

\* status = "SKIPPED (Ignored System File)"
StatusIgnored == <<"SKIPPED", " (Ignored System File)">>

StatusEmptyDB == <<"Empty DB - No files to scan.">>

StatusDBNotFound == <<"DB Not Found">>

\* ------------------------------------------------------------ dispatch
\* A dispatcher without the try/except around the populate call
OnException_Propagates(err) == [status |-> StatusError(err), escaped |-> TRUE]

\* except Exception as e: return f"ERROR: {e}"
\* escaped tells whether the exception leaves dispatch_metadata_extraction.
OnException(err) == [status |-> StatusError(err), escaped |-> FALSE]

\* dispatch_metadata_extraction up to the point where the populate function
\* returned, raised or reached its conn.commit().
\*   fam     the family whose populate function was called (None: none)
\*   token   the key looked up in META_ROUTER (None: no lookup)
DispatchResult(status, vw, fam, token, raised, escaped, atCommit) ==
    [status |-> status, view |-> vw, fam |-> fam, token |-> token,
     raised |-> raised, escaped |-> escaped, atCommit |-> atCommit]

dispatch_metadata_extraction(vw, id, extension, e, v) ==
    IF ~Truthy(extension)
    THEN DispatchResult(StatusNoExtension, vw, None, None, FALSE, FALSE, FALSE)
    ELSE LET ext_norm == Lower(Val(extension))
             populate_func == META_ROUTER(ext_norm)
         IN  IF IsNone(populate_func)
             THEN DispatchResult(StatusNoCollector, vw, None, Some(ext_norm), FALSE, FALSE, FALSE)
             ELSE LET fam == Val(populate_func)
                      r == Populate(fam, vw, id, e, v)
                  IN  IF r.raised
                      THEN DispatchResult(OnException(r.err).status, r.view, populate_func,
                                          Some(ext_norm), TRUE, OnException(r.err).escaped, FALSE)
                      ELSE DispatchResult(StatusSuccess(fam), r.view, populate_func,
                                          Some(ext_norm), FALSE, FALSE, r.atCommit)

\* ------------------------------------------------------------- routing
\* A loop body that tries the literal names after the extension lookup
Classify_NamesLast(low_filename, true_ext) ==
    IF low_filename \in IGNORED_FILES
       \/ (Truthy(true_ext) /\ Lower(Val(true_ext)) \in IGNORED_FILES)
    THEN "ignored"
    ELSE IF Truthy(true_ext) \/ low_filename \notin RouterKeys THEN "ext"
    ELSE "name"

\* Branch A / B / C of the loop body
Classify(low_filename, true_ext) ==
    IF low_filename \in IGNORED_FILES
       \/ (Truthy(true_ext) /\ Lower(Val(true_ext)) \in IGNORED_FILES)
    THEN "ignored"
    ELSE IF low_filename \in RouterKeys THEN "name"
    ELSE "ext"

\* A choice that falls back to the declared extension when the true
\* extension has no collector
TargetExt_FallsBack(true_ext, decl_ext) ==
    IF Truthy(true_ext) /\ Len(Strip(Val(true_ext))) > 0
       /\ Lower(Strip(Val(true_ext))) \in RouterKeys
    THEN Some(Strip(Val(true_ext)))
    ELSE IF Truthy(decl_ext) /\ Len(Strip(Val(decl_ext))) > 0
    THEN LET t == Strip(Val(decl_ext))
         IN  IF StartsWith(t, <<".">>) THEN Some(t) ELSE Some(<<".">> \o t)
    ELSE None

\* A choice that prefers the declared extension
TargetExt_DeclaredFirst(true_ext, decl_ext) ==
    IF Truthy(decl_ext) /\ Len(Strip(Val(decl_ext))) > 0
    THEN LET t == Strip(Val(decl_ext))
         IN  IF StartsWith(t, <<".">>) THEN Some(t) ELSE Some(<<".">> \o t)
    ELSE IF Truthy(true_ext) /\ Len(Strip(Val(true_ext))) > 0
    THEN Some(Strip(Val(true_ext)))
    ELSE None

\* Branch C: the extension handed to the dispatcher
TargetExt(true_ext, decl_ext) ==
    IF Truthy(true_ext) /\ Len(Strip(Val(true_ext))) > 0
    THEN Some(Strip(Val(true_ext)))
    ELSE IF Truthy(decl_ext) /\ Len(Strip(Val(decl_ext))) > 0
    THEN LET t == Strip(Val(decl_ext))
         IN  IF StartsWith(t, <<".">>) THEN Some(t) ELSE Some(<<".">> \o t)
    ELSE None

\* Counter update that leaves out the final else branch
CountOutcome_NoElse(counts, status) ==
    IF StartsWith(status, <<"SUCCESS">>) THEN [counts EXCEPT !.ok = @ + 1]
    ELSE IF StartsWith(status, <<"SKIPPED">>) THEN [counts EXCEPT !.ignored = @ + 1]
    ELSE counts

\* Counter update: [count_ok, count_ignored, count_error]
CountOutcome(counts, status) ==
    IF StartsWith(status, <<"SUCCESS">>) THEN [counts EXCEPT !.ok = @ + 1]
    ELSE IF StartsWith(status, <<"SKIPPED">>) THEN [counts EXCEPT !.ignored = @ + 1]
    ELSE [counts EXCEPT !.error = @ + 1]

\* A query without ORDER BY id, answered in another order
SelectRows_Unordered(n) == [k \in 1..n |-> n + 1 - k]

\* SELECT id, ... FROM file ORDER BY id: the ids in the order of the rows
SelectRows(n) == [k \in 1..n |-> k]

\* --------------------------------------------------------------- state
VARIABLES
    dbExists,   \* os.path.exists(db_path)
    file,       \* the rows of table file, by id, with what lies on disk
    ver,        \* version of the content of each file on disk
    db,         \* the Index Store as committed
    view,       \* the Index Store as the driver's connection sees it
    pc,         \* position of the driver
    run,        \* number of runs started
    i,          \* loop index (enumerate(rows, start=1))
    total,      \* len(rows)
    status,     \* status of the file being processed
    counts,     \* count_ok, count_ignored, count_error
    log,        \* lines written to metadata_scan_log.txt
    flushed,    \* how many of them have reached the disk
    calls,      \* invocations of progress_callback in the current run
    out,        \* per-file record of the current run (history)
    dbAtStart,  \* the committed Index Store when the current run started (history)
    modified,   \* a file changed on disk since the current run started (history)
    stable,     \* the run before this one completed and no file changed since (history)
    stopAt,     \* index at which progress_callback first returned the stop sentinel, 0: never
    prev,       \* per-file record of the run before the current one (history)
    excerpt,    \* the three excerpts of the record an extractor last produced
    scan,       \* position and record of the current run_magic_numbers_on_db
    conc        \* two driver runs that share one Index Store directory

vars == <<dbExists, file, ver, db, view, pc, run, i, total, status, counts,
          log, flushed, calls, out, dbAtStart, modified, stable, env,
          stopAt, prev, excerpt, scan, conc>>

N == Len(file)

\* ----------------------------------------------------------- log lines
Line(kind, st, filename, c) ==
    [kind |-> kind, status |-> st, filename |-> filename, counts |-> c]

ZeroCounts == [ok |-> 0, ignored |-> 0, error |-> 0]

PlainLine(kind) == Line(kind, <<>>, <<>>, ZeroCounts)

\* f"[{status}] : {filename}"
FileLine(st, filename) == Line("file", st, filename, ZeroCounts)

\* f"RESULTATS : OK={count_ok} | IGNORES={count_ignored} | ERREURS={count_error}"
SummaryLine(c) == Line("summary", <<>>, <<>>, c)

\* A call that passes total and index in each other's place
Call_Swapped(argc, current, tot, filename, st, fifth) ==
    [argc |-> argc, current |-> tot, total |-> current, filename |-> filename,
     status |-> st, fifth |-> fifth]

\* progress_callback(*args): the positional arguments
Call(argc, current, tot, filename, st, fifth) ==
    [argc |-> argc, current |-> current, total |-> tot, filename |-> filename,
     status |-> st, fifth |-> fifth]

\* ------------------------------------------------------------ excerpts
\* A text is a sequence of code points.  Content(n, seed) is a content of n
\* characters; Literal(n) stands for a fixed text of n characters.
Content(n, seed) == [k \in 1..n |-> 1 + ((k * seed) % 7)]

Literal(n) == [k \in 1..n |-> 0]

\* A slice that keeps the end of the text
Slice_Tail(text, n) ==
    IF Len(text) <= n THEN text ELSE SubSeq(text, Len(text) - n + 1, Len(text))

\* text[:n]
Slice(text, n) == IF Len(text) <= n THEN text ELSE SubSeq(text, 1, n)

ExcerptRec(fam, hund, thou, full) == [fam |-> fam, hund |-> hund, thou |-> thou, full |-> full]

NoExcerpt == ExcerptRec("", None, None, None)

\* meta["Exerpt_full"] = t; meta["Exerpt_thou"] = t[:1000]; meta["Exerpt_hund"] = t[:100]
SlicedExcerpts(fam, t) == ExcerptRec(fam, Some(Slice(t, 100)), Some(Slice(t, 1000)), Some(t))

\* the same under "if t:" (an empty text leaves the three fields None)
SlicedExcerptsIfAny(fam, t) ==
    IF Len(t) = 0 THEN ExcerptRec(fam, None, None, None) ELSE SlicedExcerpts(fam, t)

\* the three fields set to one info text without slicing
SameExcerpts(fam, t) == ExcerptRec(fam, Some(t), Some(t), Some(t))

\* Extractors whose excerpts are slices of the content or of a summary:
\* guarded by "if text:" (pdf, text, archive) or not (code, exe, 3d, data)
GuardedFamilies == {"pdf", "text", "archive"}

UnguardedFamilies == {"code", "exe", "3d", "data"}

\* _detect_other_db_types: "MS Access (Jet)" (15 characters), "H2 Database" (11)
OtherDbTypes == {15, 11}

\* f"DATABASE TYPE: {other_type}\nNo detailed schema extraction available
\* without specific drivers.": 15 + len(other_type) + 1 + 65 characters
extract_database_metadata_from_path(kind, t) ==
    IF kind = 0 THEN SlicedExcerpts("database", t)
    ELSE SameExcerpts("database", Literal(15) \o Content(kind, 1) \o Literal(66))

\* _detect_disk_format: vmdk, qcow2, vdi, raw_img, vhd, vhdx, dmg, unknown
DiskFormats == {3, 4, 5, 7}

\* os.path.getsize(path) has 1 to 19 decimal digits
SizeDigits == 1..19

\* iso: slices of header + file list when the list is not empty;
\* other formats: f"FORMAT: {fmt.upper()}\nSIZE: {size} bytes"
extract_disk_image_metadata_from_path(fmt, digits, t) ==
    IF fmt = 0 THEN SlicedExcerptsIfAny("disk", t)
    ELSE SameExcerpts("disk", Literal(8) \o Content(fmt, 1) \o Literal(7)
                              \o Content(digits, 2) \o Literal(6))

\* ------------------------------------------------- state of the scans
\* run_magic_numbers_on_db:
\*   pc           "idle", "row" (in the loop), "done", "aborted"
\*   rows         the ids the SELECT returned
\*   idx          enumerate(rows, start=1)
\*   calls        invocations of progress_callback in this scan
\*   visits       per visited row: its id and what the loop body found (history)
\*   before       true_extension of every row when the scan started (history)
\*   runs         number of scans started
\*   left         ids the scan before this one left null or empty (history)
NoScan ==
    [pc |-> "idle", only_missing |-> TRUE, rows |-> <<>>, idx |-> 0, calls |-> <<>>,
     visits |-> <<>>, before |-> <<>>, runs |-> 0, left |-> {}]

\* Two processes that run run_global_metadata_population on one db_path,
\* each with its own connection and its own handle on the log file:
\*   w[p].pc     "idle", "loop", "summary", "done"
\*   w[p].i      loop index of the process
\*   w[p].pos    position of its handle in the log file, in lines
\*   w[p].buf    lines written to the handle and not flushed yet
\*   w[p].final  the log file as it was when the process closed it (history)
\*   disk        the file at log_path; a line is told by the process that
\*               wrote it, its kind and the index of its file; a "hole" is
\*               the range of zero bytes a write beyond the end leaves
Workers == {1, 2}

IdleWorker == [pc |-> "idle", i |-> 0, pos |-> 0, buf |-> <<>>, final |-> <<>>]

NoConc == [w |-> [p \in Workers |-> IdleWorker], disk |-> <<>>]

\* ---------------------------------------------------------------- Init
InitWith(cat, envs) ==
    /\ dbExists \in BOOLEAN
    /\ \E n \in 0..MaxFiles :
         /\ file \in [1..n -> cat]
         /\ \A a, b \in 1..n : a # b => file[a].path # file[b].path
         /\ dbExists = FALSE => n = 0
         /\ ver = [k \in 1..n |-> 1]
         /\ db = EmptyStore(n)
         /\ view = EmptyStore(n)
         /\ dbAtStart = EmptyStore(n)
    /\ pc = "idle"
    /\ run = 0
    /\ i = 0
    /\ total = 0
    /\ status = <<"UNKNOWN">>
    /\ counts = ZeroCounts
    /\ log = <<>>
    /\ flushed = 0
    /\ calls = <<>>
    /\ out = <<>>
    /\ modified = FALSE
    /\ stable = FALSE
    /\ env \in envs
    /\ (~dbExists => env = DefaultEnv)
    /\ stopAt = 0
    /\ prev = <<>>
    /\ excerpt = NoExcerpt
    /\ scan = NoScan
    /\ conc = NoConc

Init == InitWith(Catalogue, Environments)

InitRouting == InitWith(RoutingCatalogue, {DefaultEnv})

\* ------------------------------------------------------------- actions
Header == <<PlainLine("start"), PlainLine("dbpath"), PlainLine("separator")>>

\* A log opened for appending
OpenLog_Append(old) == old

\* open(log_path, "w"): what the file at log_path held is dropped
OpenLog(old) == <<>>

\* Lines 173-211: entry of run_global_metadata_population up to the loop
StartRun ==
    /\ pc \in {"idle", "done"}
    /\ run < MaxRuns
    /\ run' = run + 1
    /\ out' = <<>>
    /\ dbAtStart' = db
    /\ stable' = (pc = "done" /\ dbExists /\ ~modified)
    /\ modified' = FALSE
    /\ counts' = ZeroCounts
    /\ status' = <<"UNKNOWN">>
    /\ stopAt' = 0
    /\ prev' = out
    /\ UNCHANGED <<dbExists, file, ver, db, env, excerpt, scan, conc>>
    /\ IF ~RouterLoads
       \* "from metadata.metadata_router import ..." raises: there is no run
       THEN /\ calls' = <<>>
            /\ pc' = "done"
            /\ UNCHANGED <<view, i, total, log, flushed>>
       ELSE IF ~dbExists
       THEN /\ calls' = <<Call(5, 0, 0, None, None, Some(StatusDBNotFound))>>
            /\ pc' = "done"
            /\ UNCHANGED <<view, i, total, log, flushed>>
       ELSE /\ view' = db
            /\ total' = N
            /\ IF ~env.logWritable
               \* lines 195-196 raise, 275-278: message printed, conn.close()
               THEN /\ calls' = <<>>
                    /\ pc' = "done"
                    /\ i' = 0
                    /\ UNCHANGED <<log, flushed>>
               ELSE IF N = 0
               THEN /\ log' = OpenLog(log) \o Header
                                   \o <<Line("message", StatusEmptyDB, <<>>, ZeroCounts)>>
                    /\ flushed' = Len(log')
                    /\ calls' = <<Call(4, 0, 0, None, Some(StatusEmptyDB), None)>>
                    /\ pc' = "done"
                    /\ i' = 0
               ELSE /\ log' = OpenLog(log) \o Header
                    /\ flushed' = 0
                    /\ calls' = <<>>
                    /\ pc' = "route"
                    /\ i' = 1

\* The rows of the Index Store that belong to one file
RowsOf(vw, id) == [meta |-> [f \in Families |-> vw.meta[f][id]], mime |-> vw.mime[id]]

Outcome(id, branch, d, settled) ==
    [id |-> id, branch |-> branch, token |-> d.token, fam |-> d.fam,
     status |-> d.status, raised |-> d.raised, rows |-> RowsOf(d.view, id),
     settled |-> settled]

\* Lines 275-278: an exception reaches the outer handler; the log file and
\* the connection are closed and the function returns.
AbortRun ==
    /\ pc' = "done"
    /\ flushed' = Len(log)
    /\ UNCHANGED <<db, status, counts, log, out, i>>

\* Lines 214-252 up to the commit of the populate function: routing,
\* dispatch, the statements of populate, counters.
Route ==
    /\ pc = "route"
    /\ LET id == SelectRows(total)[i]
           e == file[id]
           filename == Basename(e.path)
           low_filename == Lower(filename)
           branch == Classify(low_filename, e.true_extension)
           d == CASE branch = "ignored" ->
                       DispatchResult(StatusIgnored, view, None, None, FALSE, FALSE, FALSE)
                  [] branch = "name" ->
                       dispatch_metadata_extraction(view, id, Some(low_filename), e, ver[id])
                  [] branch = "ext" ->
                       dispatch_metadata_extraction(view, id,
                           TargetExt(e.true_extension, e.decl_extension), e, ver[id])
       IN  IF d.escaped
           THEN /\ view' = db
                /\ AbortRun
           ELSE /\ view' = d.view
                /\ status' = d.status
                /\ out' = Append(out, Outcome(id, branch, d, ~d.atCommit))
                /\ UNCHANGED <<db, log, flushed, i>>
                /\ IF d.atCommit
                   THEN pc' = "commit" /\ UNCHANGED counts
                   ELSE pc' = "log" /\ counts' = CountOutcome(counts, d.status)
    /\ UNCHANGED <<dbExists, file, ver, run, total, calls, dbAtStart, modified, stable,
                 env, stopAt, prev, excerpt, scan, conc>>

\* conn.commit() of the populate function, then lines 160-162 and 246-252
Commit ==
    /\ pc = "commit"
    /\ LET id == SelectRows(total)[i]
           e == file[id]
           last == out[Len(out)]
       IN  IF e.fault = "commit"
           THEN IF OnException(StoreError).escaped
                THEN /\ view' = db
                     /\ AbortRun
                ELSE /\ status' = OnException(StoreError).status
                     /\ counts' = CountOutcome(counts, status')
                     /\ out' = [out EXCEPT ![Len(out)] =
                                  [last EXCEPT !.status = status', !.raised = TRUE,
                                               !.settled = TRUE]]
                     /\ pc' = "log"
                     /\ UNCHANGED <<db, view, log, flushed, i>>
           ELSE /\ db' = CommitTx(db, view)
                /\ counts' = CountOutcome(counts, status)
                /\ out' = [out EXCEPT ![Len(out)] = [last EXCEPT !.settled = TRUE]]
                /\ pc' = "log"
                /\ UNCHANGED <<view, status, log, flushed, i>>
    /\ UNCHANGED <<dbExists, file, ver, run, total, calls, dbAtStart, modified, stable,
                 env, stopAt, prev, excerpt, scan, conc>>

\* Lines 255-259: log_file.write(log_line + "\n")
WriteLogLine ==
    /\ pc = "log"
    /\ log' = Append(log, FileLine(status, Basename(file[SelectRows(total)[i]].path)))
    /\ pc' = "flush"
    /\ UNCHANGED <<dbExists, file, ver, db, view, run, i, total, status, counts,
                   flushed, calls, out, dbAtStart, modified, stable,
                   env, stopAt, prev, excerpt, scan, conc>>

\* Line 262: log_file.flush()
Flush ==
    /\ pc = "flush"
    /\ flushed' = Len(log)
    /\ pc' = "callback"
    /\ UNCHANGED <<dbExists, file, ver, db, view, run, i, total, status, counts,
                   log, calls, out, dbAtStart, modified, stable,
                   env, stopAt, prev, excerpt, scan, conc>>

\* What the caller's progress_callback may return: nothing, or (once per
\* run) the sentinel that asks the driver to stop
CallbackReturns(stopped) == IF env.sentinel /\ stopped = 0 THEN {"none", "stop"} ELSE {"none"}

\* Lines 265-266, then the next iteration or the end of the loop
Callback ==
    /\ pc = "callback"
    /\ calls' = Append(calls, Call(4, i, total,
                       Some(Basename(file[SelectRows(total)[i]].path)), Some(status), None))
    \* what the callback returns is dropped by the call statement
    /\ \E ret \in CallbackReturns(stopAt) :
         stopAt' = IF ret = "stop" THEN i ELSE stopAt
    /\ IF i < total
       THEN i' = i + 1 /\ pc' = "route" /\ status' = <<"UNKNOWN">>
       ELSE i' = i /\ pc' = "summary" /\ status' = status
    /\ UNCHANGED <<dbExists, file, ver, db, view, run, total, counts,
                   log, flushed, out, dbAtStart, modified, stable, env, prev, excerpt, scan, conc>>

\* Lines 268-278: closing lines, end of the with block, conn.close()
Summary ==
    /\ pc = "summary"
    /\ log' = log \o <<PlainLine("separator"), PlainLine("end"),
                       SummaryLine(counts), PlainLine("end")>>
    /\ flushed' = Len(log')
    /\ view' = db
    /\ pc' = "done"
    /\ UNCHANGED <<dbExists, file, ver, db, run, i, total, status, counts,
                   calls, out, dbAtStart, modified, stable,
                   env, stopAt, prev, excerpt, scan, conc>>

\* The process is stopped (kill, power loss) at any point of a run: what
\* the log buffer and the connection hold beyond the disk is lost.
Interrupt ==
    /\ pc \in {"route", "commit", "log", "flush", "callback", "summary"}
    /\ log' = SubSeq(log, 1, flushed)
    /\ view' = db
    /\ pc' = "interrupted"
    /\ UNCHANGED <<dbExists, file, ver, db, run, i, total, status, counts,
                   flushed, calls, out, dbAtStart, modified, stable,
                   env, stopAt, prev, excerpt, scan, conc>>

\* Between two runs the content of a file changes on disk
ModifyFile ==
    /\ pc = "done"
    /\ run < MaxRuns
    /\ ~modified
    /\ \E k \in 1..N :
         /\ ver[k] < MaxVersion
         /\ ver' = [ver EXCEPT ![k] = @ + 1]
    /\ modified' = TRUE
    /\ UNCHANGED <<dbExists, file, db, view, pc, run, i, total, status, counts,
                   log, flushed, calls, out, dbAtStart, stable,
                   env, stopAt, prev, excerpt, scan, conc>>

\* ------------------------------------------------------- type sniffing
\* try: import magic ... except ImportError: HAVE_MAGIC = False
HAVE_MAGIC == env.missing # "magic"

\* Formats whose bytes start with PK\x03\x04: an OOXML document, a Java
\* archive, a plain ZIP, and a file with the signature whose central
\* directory cannot be read
ZipFormats == {"ooxml", "jar", "zip", "badzip"}

\* The signature at the start of read_file_start(path); "none" when the
\* start is damaged or empty, when the format has no magic number (text,
\* csv, other) and for a ZIP container that lies behind a stub ("stubzip")
Signature(e) ==
    IF ~e.ok THEN "none"
    ELSE CASE e.fmt \in ZipFormats -> "PK"
           [] e.fmt = "pdf"        -> "%PDF-"
           [] e.fmt = "jpeg"       -> "JPEG"
           [] e.fmt = "mp4"        -> "ftyp"
           [] e.fmt = "class"      -> "CAFEBABE"
           [] e.fmt = "elf"        -> "ELF"
           [] OTHER                -> "none"

\* (extension_probable, description); the description is kept as the part
\* of the code that produced it
Sniffed(ext, desc) == [ext |-> ext, desc |-> desc]

MimeZip == "application/zip"

MimeDocx == "application/vnd.openxmlformats-officedocument.wordprocessingml.document"

\* detect_zip_subtype(path): the members of the container decide; a file
\* zipfile.ZipFile cannot open gives the generic answer
detect_zip_subtype(e) ==
    IF e.ok /\ e.fmt \in {"ooxml", "stubzip"}
    THEN Sniffed(Some(Dot(Ext_docx)), "Microsoft Word Open XML document (DOCX)")
    ELSE IF e.ok /\ e.fmt = "jar"
    THEN Sniffed(Some(<<".","j","a","r">>), "Java archive (JAR)")
    ELSE IF e.ok /\ e.fmt = "zip"
    THEN Sniffed(Some(<<".","z","i","p">>), "Generic ZIP archive")
    ELSE Sniffed(Some(<<".","z","i","p">>), "ZIP-like file (invalid or unreadable as ZIP)")

\* mime_to_extension(mime): MIME_TO_EXT, then mimetypes.guess_extension
mime_to_extension(mime) ==
    IF mime = "" THEN None
    ELSE CASE mime = "application/pdf"          -> Some(Dot(Ext_pdf))
           [] mime = "image/jpeg"               -> Some(Dot(Ext_jpg))
           [] mime = "video/mp4"                -> Some(<<".","m","p","4">>)
           [] mime = "text/plain"               -> Some(<<".","t","x","t">>)
           [] mime = "text/csv"                 -> Some(<<".","c","s","v">>)
           [] mime = MimeZip                    -> Some(<<".","z","i","p">>)
           [] mime = MimeDocx                   -> Some(Dot(Ext_docx))
           [] mime = "application/java-archive" -> Some(<<".","j","a","r">>)
           [] mime = "application/x-executable" -> Some(<<>>)
           [] mime = "application/octet-stream" -> Some(<<".","b","i","n">>)
           [] OTHER                             -> None

\* detect_file_type_manual(data, path_for_containers)
detect_file_type_manual(e, hasPath) ==
    CASE Signature(e) = "PK"       -> IF hasPath THEN detect_zip_subtype(e)
                                      ELSE Sniffed(Some(<<".","z","i","p">>), "Generic ZIP archive")
      [] Signature(e) = "JPEG"     -> Sniffed(Some(Dot(Ext_jpg)), "JPEG image")
      [] Signature(e) = "ftyp"     -> Sniffed(Some(<<".","m","p","4">>), "MP4/ISO Base Media file")
      [] Signature(e) = "%PDF-"    -> Sniffed(Some(Dot(Ext_pdf)), "PDF document")
      [] Signature(e) = "ELF"      -> Sniffed(Some(<<>>), "ELF executable or shared object (Unix/Linux)")
      [] Signature(e) = "CAFEBABE" -> Sniffed(Some(<<".","c","l","a","s","s">>),
                                              "Java class file (or Mach-O fat binary)")
      [] OTHER                     -> Sniffed(None, "Unknown or unsupported format")

\* A detection that asks the library before it looks at the ZIP signature
detect_file_type_LibraryFirst(e, hasPath, have_magic, mime) ==
    IF have_magic /\ ~IsNone(mime) /\ ~IsNone(mime_to_extension(Val(mime)))
    THEN Sniffed(mime_to_extension(Val(mime)), "python-magic")
    ELSE IF Signature(e) = "PK" /\ hasPath
    THEN detect_zip_subtype(e)
    ELSE detect_file_type_manual(e, hasPath)

\* detect_file_type(data, path_for_containers)
\*   hasPath     path_for_containers is not None
\*   have_magic  HAVE_MAGIC
\*   mime        magic.from_buffer(data, mime=True); None when it raised
detect_file_type(e, hasPath, have_magic, mime) ==
    IF Signature(e) = "PK" /\ hasPath
    THEN detect_zip_subtype(e)
    ELSE IF have_magic /\ ~IsNone(mime) /\ Val(mime) = MimeZip /\ hasPath
    THEN detect_zip_subtype(e)
    ELSE IF have_magic /\ ~IsNone(mime) /\ ~IsNone(mime_to_extension(Val(mime)))
    THEN Sniffed(mime_to_extension(Val(mime)), "python-magic")
    ELSE detect_file_type_manual(e, hasPath)

\* detect_true_extension_for_path(path)
detect_true_extension_for_path(e, have_magic, mime) == detect_file_type(e, TRUE, have_magic, mime)

\* What libmagic reports for the bytes of a file
MagicMime(e) ==
    IF ~e.ok THEN Some("application/x-empty")
    ELSE CASE e.fmt = "pdf"     -> Some("application/pdf")
           [] e.fmt = "ooxml"   -> Some(MimeDocx)
           [] e.fmt = "jar"     -> Some("application/java-archive")
           [] e.fmt \in {"zip", "badzip", "stubzip"} -> Some(MimeZip)
           [] e.fmt = "jpeg"    -> Some("image/jpeg")
           [] e.fmt = "mp4"     -> Some("video/mp4")
           [] e.fmt = "text"    -> Some("text/plain")
           [] e.fmt = "csv"     -> Some("text/csv")
           [] e.fmt = "class"   -> Some("application/x-java-applet")
           [] e.fmt = "elf"     -> Some("application/x-executable")
           [] OTHER             -> Some("application/x-unknown")

\* The answers one build of libmagic or another gives for the same bytes:
\* the precise type, the container type, no type, or an exception (None)
MagicAnswers(e) ==
    { MagicMime(e), Some("application/octet-stream"), None }
    \cup (IF e.fmt \in ZipFormats \cup {"stubzip"} THEN { Some(MimeZip) } ELSE {})

\* One iteration of the loop of run_magic_numbers_on_db (lines 201-217):
\*   error    the text handed to the callback, None when there is none
\*   updated  the UPDATE of true_extension was executed
\*   escaped  the exception leaves the loop
Visit(ext, desc, error, updated, escaped) ==
    [ext |-> ext, desc |-> desc, error |-> error, updated |-> updated, escaped |-> escaped]

\* A loop body without the try/except around the sniffing
OnSniffError_Propagates(err) == [error |-> Some(err), escaped |-> TRUE]

\* except Exception as e: error = str(e)
OnSniffError(err) == [error |-> Some(err), escaped |-> FALSE]

SniffRow(e, have_magic, mime) ==
    IF e.disk = "absent" THEN Visit(None, None, Some("Fichier introuvable"), FALSE, FALSE)
    ELSE IF e.disk = "unreadable"
    THEN Visit(None, None, OnSniffError("Permission denied").error, FALSE,
               OnSniffError("Permission denied").escaped)
    ELSE LET r == detect_true_extension_for_path(e, have_magic, mime)
         IN  Visit(r.ext, Some(r.desc), None, TRUE, FALSE)

\* A selection that takes NULL only
Selected_NullOnly(e, only_missing) == ~only_missing \/ IsNone(e.true_extension)

\* WHERE true_extension IS NULL OR true_extension = '' (only_missing), else every row
Selected(e, only_missing) == ~only_missing \/ ~Truthy(e.true_extension)

\* run_magic_numbers_on_db(db_path, only_missing=...): every selected row
\* gets UPDATE file SET true_extension = ext, committed row by row.
MagicScan ==
    /\ pc \in {"idle", "done"}
    /\ dbExists
    /\ \E only_missing \in BOOLEAN :
         file' = [k \in 1..N |->
                    LET v == SniffRow(file[k], HAVE_MAGIC, MagicMime(file[k]))
                    IN  IF Selected(file[k], only_missing) /\ v.updated
                        THEN [file[k] EXCEPT !.true_extension = v.ext]
                        ELSE file[k]]
    /\ modified' = (modified \/ file' # file)
    /\ UNCHANGED <<dbExists, ver, db, view, pc, run, i, total, status, counts,
                   log, flushed, calls, out, dbAtStart, stable, env, stopAt, prev, excerpt, scan, conc>>

Next ==
    \/ StartRun
    \/ Route
    \/ Commit
    \/ WriteLogLine
    \/ Flush
    \/ Callback
    \/ Summary
    \/ Interrupt
    \/ ModifyFile
    \/ MagicScan

Spec == Init /\ [][Next]_vars

SpecRouting == InitRouting /\ [][Next]_vars

\* The indexes of the checks on files whose effective type changes between
\* two runs or contradicts their name: files processed by declared
\* extension before the Magic scan has seen them, and names that hide
\* another content.
RetypeCatalogue ==
    { \* MP4 under a .pdf name, not scanned yet
      Entry(Dir \o <<"v">> \o Dot(Ext_pdf), None, Some(Ext_pdf), "mp4", TRUE, "none"),
      \* PDF under a .txt name, not scanned yet
      Entry(Dir \o <<"w",".","t","x","t">>, None, Some(<<"t","x","t">>), "pdf", TRUE, "none"),
      \* Java class under a .pdf name, scanned
      Entry(Dir \o <<"x">> \o Dot(Ext_pdf), Some(<<".","c","l","a","s","s">>), Some(Ext_pdf), "class", TRUE, "none"),
      \* Java class under a literal name, scanned
      Entry(Dir \o <<"R","E","A","D","M","E">>, Some(<<".","c","l","a","s","s">>), None, "class", TRUE, "none") }

InitRetype == InitWith(RetypeCatalogue, {DefaultEnv})

SpecRetype == InitRetype /\ [][Next]_vars

\* ------------------------------------------- the extractors on their own
\* Lengths of the contents handed to the extractors: around the two limits
TextLengths == {0, 1, 99, 100, 101, 999, 1000} \cup (1001..MaxText)

Texts == { Content(n, seed) : n \in TextLengths, seed \in {1, 2} }

driverVars == <<dbExists, file, ver, db, view, pc, run, i, total, status, counts,
                log, flushed, calls, out, dbAtStart, modified, stable, env,
                stopAt, prev>>

InitExcerpt == InitWith({}, {DefaultEnv})

ExtractFromContent ==
    /\ \E fam \in GuardedFamilies \cup UnguardedFamilies, t \in Texts :
         excerpt' = IF fam \in GuardedFamilies THEN SlicedExcerptsIfAny(fam, t)
                    ELSE SlicedExcerpts(fam, t)
    /\ UNCHANGED <<driverVars, scan, conc>>

ExtractDatabase ==
    /\ \E kind \in {0} \cup OtherDbTypes, t \in Texts :
         excerpt' = extract_database_metadata_from_path(kind, t)
    /\ UNCHANGED <<driverVars, scan, conc>>

ExtractDiskImage ==
    /\ \E fmt \in {0} \cup DiskFormats, digits \in SizeDigits, t \in Texts :
         excerpt' = extract_disk_image_metadata_from_path(fmt, digits, t)
    /\ UNCHANGED <<driverVars, scan, conc>>

NextExcerpt == ExtractFromContent \/ ExtractDatabase \/ ExtractDiskImage

SpecExcerpt == InitExcerpt /\ [][NextExcerpt]_vars

\* ------------------------------------------------ the scan on its own
\* Files the Magic scan meets: containers of each kind, a container behind
\* a stub, files that left the disk or cannot be opened, rows already
\* scanned.
ScanCatalogue ==
    { Entry(Dir \o <<"r">> \o Dot(Ext_pdf), None, Some(Ext_pdf), "ooxml", TRUE, "none"),
      Entry(Dir \o <<"l",".","j","a","r">>, None, Some(<<"j","a","r">>), "jar", TRUE, "none"),
      Entry(Dir \o <<"k",".","z","i","p">>, Some(<<>>), Some(<<"z","i","p">>), "badzip", TRUE, "none"),
      Entry(Dir \o <<"s",".","e","x","e">>, None, Some(<<"e","x","e">>), "stubzip", TRUE, "none"),
      Entry(Dir \o <<"p","r","o","g">>, None, None, "elf", TRUE, "none"),
      Entry(Dir \o <<"a">> \o Dot(Ext_pdf), Some(Dot(Ext_pdf)), Some(Ext_pdf), "pdf", TRUE, "none"),
      OnDisk(Entry(Dir \o <<"g">> \o Dot(Ext_jpg), Some(Dot(Ext_jpg)), Some(Ext_jpg), "jpeg", TRUE, "none"),
             "absent"),
      OnDisk(Entry(Dir \o <<"u">> \o Dot(Ext_docx), Some(Dot(Ext_docx)), Some(Ext_docx), "ooxml", TRUE, "none"),
             "unreadable") }

ScanEnvironments == { DefaultEnv, Env(TRUE, "magic", FALSE) }

InitScan == InitWith(ScanCatalogue, ScanEnvironments)

NullOrEmpty(f) == { k \in 1..Len(f) : ~Truthy(f[k].true_extension) }

\* Lines 170-192: connect, SELECT, the case total == 0
ScanStart ==
    /\ scan.pc \in {"idle", "done"}
    /\ dbExists
    /\ scan.runs < MaxRuns
    /\ \E only_missing \in BOOLEAN :
         LET ids == { k \in 1..N : Selected(file[k], only_missing) }
             rows == SelectSeq(SelectRows(N), LAMBDA k : k \in ids)
         IN  scan' = [pc |-> IF rows = <<>> THEN "done" ELSE "row",
                      only_missing |-> only_missing,
                      rows |-> rows,
                      idx |-> IF rows = <<>> THEN 0 ELSE 1,
                      calls |-> IF rows = <<>>
                                THEN << [idx |-> 0, total |-> 0, path |-> None, ext |-> None,
                                         desc |-> None, error |-> Some("Rien a traiter.")] >>
                                ELSE <<>>,
                      visits |-> <<>>,
                      before |-> [k \in 1..N |-> file[k].true_extension],
                      runs |-> scan.runs + 1,
                      left |-> IF scan.pc = "done" THEN NullOrEmpty(file) ELSE {}]
    /\ UNCHANGED <<driverVars, excerpt, conc>>

\* Lines 194-224: one row of the loop, its callback and its commit
ScanFile ==
    /\ scan.pc = "row"
    /\ LET id == scan.rows[scan.idx]
           e == file[id]
       IN  \E mime \in MagicAnswers(e) :
             LET v == SniffRow(e, HAVE_MAGIC, mime)
             IN  IF v.escaped
                 THEN /\ scan' = [scan EXCEPT !.pc = "aborted"]
                      /\ file' = file
                 ELSE /\ file' = IF v.updated
                                 THEN [file EXCEPT ![id].true_extension = v.ext]
                                 ELSE file
                      /\ scan' = [scan EXCEPT
                                    !.calls = Append(@, [idx |-> scan.idx, total |-> Len(scan.rows),
                                                         path |-> Some(e.path), ext |-> v.ext,
                                                         desc |-> v.desc, error |-> v.error]),
                                    !.visits = Append(@, [id |-> id, mime |-> mime, v |-> v]),
                                    !.idx = IF scan.idx < Len(scan.rows) THEN scan.idx + 1 ELSE scan.idx,
                                    !.pc = IF scan.idx < Len(scan.rows) THEN "row" ELSE "done"]
    /\ modified' = (modified \/ file' # file)
    /\ UNCHANGED <<dbExists, ver, db, view, pc, run, i, total, status, counts,
                   log, flushed, calls, out, dbAtStart, stable, env, stopAt, prev, excerpt, conc>>

NextScan == ScanStart \/ ScanFile

SpecScan == InitScan /\ [][NextScan]_vars

\* --------------------------------------------- two runs on one index
ConcCatalogue == { e \in Catalogue : e.fault = "none" /\ e.ok }

InitConc == InitWith(ConcCatalogue, {DefaultEnv})

LogLine(p, kind, k) == [w |-> p, kind |-> kind, k |-> k]

ConcHeader(p) == <<LogLine(p, "start", 0), LogLine(p, "dbpath", 0), LogLine(p, "separator", 0)>>

ConcClosing(p) ==
    <<LogLine(p, "separator", 0), LogLine(p, "end", 0), LogLine(p, "summary", 0), LogLine(p, "end", 0)>>

Hole == LogLine(0, "hole", 0)

\* write(2) at the position of the handle: the file grows when the write
\* ends beyond its end, the range between the old end and the position
\* reads as zero bytes, the lines under the write are replaced
WriteAt(f, pos, lines) ==
    LET len == IF pos + Len(lines) > Len(f) THEN pos + Len(lines) ELSE Len(f)
    IN  [k \in 1..len |->
           IF k > pos /\ k <= pos + Len(lines) THEN lines[k - pos]
           ELSE IF k <= Len(f) THEN f[k]
           ELSE Hole]

\* Lines 173-211 in process p: open(log_path, "w") truncates the file of
\* both processes; the header stays in the buffer of the handle
ConcOpen(p) ==
    /\ conc.w[p].pc = "idle"
    /\ dbExists
    /\ conc' = [conc EXCEPT
                  !.disk = OpenLog(conc.disk),
                  !.w[p] = [pc |-> IF N = 0 THEN "summary" ELSE "loop",
                            i |-> IF N = 0 THEN 0 ELSE 1,
                            pos |-> 0,
                            buf |-> IF N = 0
                                    THEN ConcHeader(p) \o <<LogLine(p, "message", 0)>>
                                    ELSE ConcHeader(p),
                            final |-> <<>>]]
    /\ UNCHANGED <<driverVars, excerpt, scan>>

\* Lines 213-266 in process p: one file, its line, log_file.flush()
ConcFile(p) ==
    /\ conc.w[p].pc = "loop"
    /\ LET me == conc.w[p]
           lines == Append(me.buf, LogLine(p, "file", SelectRows(N)[me.i]))
       IN  conc' = [conc EXCEPT
                      !.disk = WriteAt(conc.disk, me.pos, lines),
                      !.w[p] = [me EXCEPT !.pos = me.pos + Len(lines),
                                          !.buf = <<>>,
                                          !.i = IF me.i < N THEN me.i + 1 ELSE me.i,
                                          !.pc = IF me.i < N THEN "loop" ELSE "summary"]]
    /\ UNCHANGED <<driverVars, excerpt, scan>>

\* Lines 268-278 in process p (for an empty index the return of line 206):
\* the closing lines, the end of the with block flushes and closes
ConcClose(p) ==
    /\ conc.w[p].pc = "summary"
    /\ LET me == conc.w[p]
           lines == IF N = 0 THEN me.buf ELSE me.buf \o ConcClosing(p)
       IN  conc' = [conc EXCEPT
                      !.disk = WriteAt(conc.disk, me.pos, lines),
                      !.w[p] = [me EXCEPT !.pos = me.pos + Len(lines),
                                          !.buf = <<>>,
                                          !.pc = "done",
                                          !.final = WriteAt(conc.disk, me.pos, lines)]]
    /\ UNCHANGED <<driverVars, excerpt, scan>>

NextConc == \E p \in Workers : ConcOpen(p) \/ ConcFile(p) \/ ConcClose(p)

SpecConcurrent == InitConc /\ [][NextConc]_vars

TypeOK ==
    /\ pc \in {"idle", "route", "commit", "log", "flush", "callback", "summary",
               "done", "interrupted"}
    /\ run \in 0..MaxRuns
    /\ flushed \in 0..Len(log)
    /\ Len(out) <= total

\* ============================================================= claims
FileLines(l) == SelectSeq(l, LAMBDA x : x.kind = "file")

SummaryLines(l) == SelectSeq(l, LAMBDA x : x.kind = "summary")

\* A run over an existing index with a writable log has reached its end
RunEnded == pc = "done" /\ run >= 1 /\ dbExists /\ env.logWritable /\ RouterLoads

LogComplete ==
    /\ Len(FileLines(log)) = N
    /\ Len(SummaryLines(log)) = 1
    /\ LET c == SummaryLines(log)[1].counts IN c.ok + c.ignored + c.error = N

C2_FailureIsLocal ==
    /\ \A k \in 1..Len(out) :
         out[k].settled => (out[k].raised <=> StartsWith(out[k].status, <<"ERROR">>))
    /\ \A k \in 1..Len(FileLines(log)) :
         FileLines(log)[k].status = out[k].status
    /\ RunEnded => /\ Len(out) = N
                   /\ \A k \in 1..N : out[k].id = k /\ out[k].settled
                   /\ Len(FileLines(log)) = N

C2_Witness ==
    /\ RunEnded
    /\ N = 2
    /\ out[1].raised
    /\ StartsWith(FileLines(log)[1].status, <<"ERROR">>)
    /\ StartsWith(FileLines(log)[2].status, <<"SUCCESS">>)

IsSuccess(st) == StartsWith(st, <<"SUCCESS">>)

IsSkipped(st) == StartsWith(st, <<"SKIPPED">>)

IsError(st) == StartsWith(st, <<"ERROR">>)

\* C3: when the processing of file i ends in ERROR, the Index Store holds for
\* file i the record and the resolved MIME it held before, also after the
\* commits made for later files.
C3_ErrorLeavesStoreUntouched ==
    \A k \in 1..Len(out) :
        (out[k].settled /\ IsError(out[k].status)) =>
            RowsOf(db, out[k].id) = RowsOf(dbAtStart, out[k].id)

\* C4: at every point of a run (hence wherever it is interrupted) the rows
\* written by populate for a file whose outcome is SUCCESS are the committed
\* rows of that file.
C4_SuccessIsCommitted ==
    \A k \in 1..Len(out) :
        (out[k].settled /\ IsSuccess(out[k].status)) =>
            RowsOf(db, out[k].id) = out[k].rows

C4_Witness ==
    /\ pc = "interrupted"
    /\ Len(out) = 2
    /\ out[1].settled /\ IsSuccess(out[1].status)
    /\ ~IsNone(db.meta["pdf"][1])
    /\ ~out[2].settled
    /\ IsNone(db.meta["pdf"][2])

\* C5: in branch C the key looked up is the true extension when it is
\* non-empty, else the declared extension in lowercase behind one dot; when
\* both exist and differ, the populate function called is the one registered
\* for the true extension.
C5_TrueExtensionFirst ==
    \A k \in 1..Len(out) :
        out[k].branch = "ext" =>
            LET e == file[out[k].id]
                t == e.true_extension
                d == e.decl_extension
            IN  /\ Truthy(t) => out[k].token = t
                /\ (~Truthy(t) /\ Truthy(d)) =>
                      /\ out[k].token = Some(<<".">> \o Lower(Strip(Val(d))))
                      /\ Val(out[k].token)[1] = "."
                      /\ Val(out[k].token)[2] # "."
                      /\ \A c \in 1..Len(Val(out[k].token)) :
                           /\ ~IsSpace(Val(out[k].token)[c])
                           /\ LowerChar(Val(out[k].token)[c]) = Val(out[k].token)[c]
                /\ (Truthy(t) /\ Truthy(d) /\ Val(t) # <<".">> \o Val(d)) =>
                      out[k].fam = META_ROUTER(Val(t))

C5_Witness ==
    \E k \in 1..Len(out) :
        /\ out[k].settled
        /\ out[k].branch = "ext"
        /\ file[out[k].id].true_extension = Some(Dot(Ext_docx))
        /\ file[out[k].id].decl_extension = Some(Ext_pdf)
        /\ out[k].fam = Some("office")

\* C6: a file whose lowercase name is a literal-name key is dispatched to the
\* populate function registered under that name, whatever its extensions
\* are; it is neither ignored nor left without collector.
LiteralNames == UNION { LiteralNameKeys[f] : f \in Families }

C6_LiteralNameWins ==
    \A k \in 1..Len(out) :
        LET low == Lower(Basename(file[out[k].id].path))
        IN  low \in LiteralNames =>
              /\ out[k].branch = "name"
              /\ out[k].token = Some(low)
              /\ \E f \in Families : low \in LiteralNameKeys[f] /\ out[k].fam = Some(f)
              /\ ~IsSkipped(out[k].status)

C6_Witness ==
    \E k \in 1..Len(out) :
        /\ out[k].settled
        /\ Truthy(file[out[k].id].true_extension)
        /\ Lower(Basename(file[out[k].id].path)) \in LiteralNameKeys["code"]
        /\ META_ROUTER(Val(file[out[k].id].true_extension)) = Some("text")
        /\ out[k].fam = Some("code")

\* C7: a second run over unchanged files leaves every family table as the
\* first run left it.
C7_SecondRunChangesNothing ==
    (RunEnded /\ stable) =>
        /\ db.meta = dbAtStart.meta
        /\ \A f \in Families :
             Cardinality({ k \in 1..N : ~IsNone(db.meta[f][k]) })
               = Cardinality({ k \in 1..N : ~IsNone(dbAtStart.meta[f][k]) })

C7_Witness ==
    /\ RunEnded
    /\ stable
    /\ run = 2
    /\ N = 2
    /\ ~IsNone(db.meta["pdf"][1])
    /\ ~IsNone(db.meta["office"][2])

\* C8: after populate(conn, file_id) returns without raising, the family
\* table holds a row for file_id and the row is the one of this extraction.
Running == pc \in {"route", "commit", "log", "flush", "callback", "summary"}

C8_PopulateLeavesItsRecord ==
    \A k \in 1..Len(out) :
        (Running /\ out[k].settled /\ ~IsNone(out[k].fam) /\ ~out[k].raised) =>
            out[k].rows.meta[Val(out[k].fam)]
              = Some(Extract(Val(out[k].fam), file[out[k].id], ver[out[k].id]).rec)

\* C9: the files are processed in ascending identity order, the line of a
\* file is on disk before the next file is taken up, and the summary follows
\* every per-file line.
C9_LogFollowsIdentityOrder ==
    /\ \A k \in 1..Len(out) : out[k].id = k
    /\ \A k \in 1..Len(FileLines(log)) :
         /\ k <= Len(out)
         /\ FileLines(log)[k].filename = Basename(file[k].path)
         /\ FileLines(log)[k].status = out[k].status
    /\ pc \in {"route", "commit"} =>
         /\ Len(FileLines(SubSeq(log, 1, flushed))) = i - 1
         /\ Len(FileLines(log)) = i - 1
    /\ \A a, b \in 1..Len(log) :
         (log[a].kind = "summary" /\ log[b].kind = "file") => b < a
    /\ Len(SummaryLines(log)) > 0 => Len(FileLines(log)) = N

C9_Witness ==
    /\ pc = "commit"
    /\ i = 2
    /\ flushed = Len(log)
    /\ Len(FileLines(log)) = 1
    /\ FileLines(log)[1].filename = Basename(file[1].path)

PrefixMatchable(st) ==
    ~IsNone(st) /\ (IsSuccess(Val(st)) \/ IsSkipped(Val(st)) \/ IsError(Val(st)))

InLoop == pc \in {"route", "commit", "log", "flush"}

C12_StopBeforeNextFile ==
    stopAt # 0 => \A k \in 1..Len(out) : out[k].id <= stopAt

\* C13: a run ends with unprocessed files only when the database is missing
\* at start; then the failure is reported once, no file is processed and the
\* Index Store is not written.
C13_OnlyMissingStoreHalts ==
    (pc = "done" /\ run >= 1) =>
        /\ Len(out) < N => ~dbExists
        /\ ~dbExists =>
             /\ Len(calls) = 1
             /\ calls[1].fifth = Some(StatusDBNotFound)
             /\ out = <<>>
             /\ db = dbAtStart

Bucket(P(_)) == Cardinality({ k \in 1..Len(out) : out[k].settled /\ P(out[k].status) })

\* C14: a file is classified once, at most one populate function is called
\* for it and only once, it is counted in exactly one of the three buckets,
\* and a file that ended in error is dispatched again by the next run.
C14_OnePassPerFile ==
    /\ Len(out) <= N
    /\ \A k \in 1..Len(out) :
         /\ out[k].id = k
         /\ out[k].branch = "ignored" => (IsNone(out[k].fam) /\ IsSkipped(out[k].status))
         /\ IsNone(out[k].fam) => IsSkipped(out[k].status)
         /\ ~IsNone(out[k].fam) =>
              /\ out[k].branch \in {"name", "ext"}
              /\ out[k].fam = META_ROUTER(Val(out[k].token))
              /\ IF out[k].raised THEN IsError(out[k].status) ELSE IsSuccess(out[k].status)
    /\ (\A k \in 1..Len(out) : out[k].settled) =>
         /\ counts.ok = Bucket(IsSuccess)
         /\ counts.ignored = Bucket(IsSkipped)
         /\ counts.error = Bucket(IsError)
         /\ counts.ok + counts.ignored + counts.error = Len(out)
    /\ (RunEnded /\ run = 2) =>
         \A k \in 1..Len(prev) :
             IsError(prev[k].status) =>
                 /\ out[k].id = prev[k].id
                 /\ out[k].branch \in {"name", "ext"}
                 /\ out[k].fam = prev[k].fam
                 /\ ~IsNone(out[k].fam)

C14_Witness ==
    /\ RunEnded
    /\ run = 2
    /\ Len(prev) = 2
    /\ IsError(prev[1].status)
    /\ IsSuccess(prev[2].status)
    /\ ~IsNone(out[1].fam)
    /\ counts.error >= 1 /\ counts.ok >= 1

\* The files C15 is about, told from the FileRecord alone
OnIgnoreList(e) ==
    \/ Lower(Basename(e.path)) \in IGNORED_FILES
    \/ (Truthy(e.true_extension) /\ Lower(Val(e.true_extension)) \in IGNORED_FILES)

HasLiteralName(e) == Lower(Basename(e.path)) \in LiteralNames

NonBlank(o) == Truthy(o) /\ \E c \in 1..Len(Val(o)) : ~IsSpace(Val(o)[c])

TokenEmpty(e) == ~NonBlank(e.true_extension) /\ ~NonBlank(e.decl_extension)

TokenUnregistered(e) ==
    IF NonBlank(e.true_extension)
    THEN Lower(Strip(Val(e.true_extension))) \notin RouterKeys
    ELSE /\ NonBlank(e.decl_extension)
         /\ <<".">> \o Lower(Strip(Val(e.decl_extension))) \notin RouterKeys
         /\ Lower(Strip(Val(e.decl_extension))) \notin RouterKeys

NothingToExtract(e) ==
    OnIgnoreList(e) \/ (~HasLiteralName(e) /\ (TokenEmpty(e) \/ TokenUnregistered(e)))

\* C15: an ignored file, and a file whose token is empty or not registered,
\* is recorded as SKIPPED, no populate function is called for it, and the
\* step that processes it changes neither the connection's view nor the
\* committed Index Store.
C15_SkippedWithoutEffect ==
    /\ [](\A k \in 1..Len(out) :
            NothingToExtract(file[out[k].id]) =>
                /\ IsSkipped(out[k].status)
                /\ ~IsError(out[k].status)
                /\ IsNone(out[k].fam)
                /\ out[k].settled)
    /\ [][(pc = "route" /\ pc' # "interrupted" /\ NothingToExtract(file[i])) =>
             (pc' = "log" /\ view' = view /\ db' = db /\ counts'.ignored = counts.ignored + 1)]_vars

C15_Witness ==
    /\ RunEnded
    /\ Len(out) = 2
    /\ out[1].status = StatusNoCollector
    /\ out[2].status = StatusNoExtension
    /\ TokenUnregistered(file[1])
    /\ TokenEmpty(file[2])

\* C16: when the routed file is corrupt or truncated the extractor does not
\* raise, populate writes a record with null or zero technical fields and the
\* driver records SUCCESS.
C16_CorruptFileIsSuccess ==
    \A k \in 1..Len(out) :
        LET e == file[out[k].id]
        IN  (out[k].settled /\ ~IsNone(out[k].fam) /\ ~e.ok /\ e.fault = "none") =>
                /\ ~out[k].raised
                /\ IsSuccess(out[k].status)
                /\ ~IsNone(out[k].rows.meta[Val(out[k].fam)])
                /\ Val(out[k].rows.meta[Val(out[k].fam)]).tech = 0

\* C17: with one optional parsing library absent the run still completes
\* and every file that has a collector is still handed to it.
C17_MissingLibraryDegradesOneFamily ==
    (pc = "done" /\ run >= 1 /\ dbExists /\ env.logWritable /\ env.missing \in Libraries) =>
        /\ Len(out) = N
        /\ N >= 1 => Len(SummaryLines(log)) = 1
        /\ \A k \in 1..Len(out) :
             ~NothingToExtract(file[out[k].id]) => ~IsNone(out[k].fam)

IsPrefix(a, b) == Len(a) <= Len(b) /\ SubSeq(b, 1, Len(a)) = a

\* C18: when the three excerpts of a record are non-null, Exerpt_hund is a
\* prefix of Exerpt_thou, Exerpt_thou a prefix of Exerpt_full, Exerpt_hund
\* has at most 100 characters and Exerpt_thou at most 1000.
C18_ExcerptsArePrefixes ==
    (~IsNone(excerpt.hund) /\ ~IsNone(excerpt.thou) /\ ~IsNone(excerpt.full)) =>
        /\ IsPrefix(Val(excerpt.hund), Val(excerpt.thou))
        /\ IsPrefix(Val(excerpt.thou), Val(excerpt.full))
        /\ Len(Val(excerpt.hund)) <= 100
        /\ Len(Val(excerpt.thou)) <= 1000

C18_Witness ==
    /\ excerpt.fam = "database"
    /\ ~IsNone(excerpt.full)
    /\ Len(Val(excerpt.full)) = 1001
    /\ Len(Val(excerpt.thou)) = 1000
    /\ Len(Val(excerpt.hund)) = 100

\* C19: the true extension of every FileRecord is null or a non-empty
\* lowercase token without blanks; it is never the empty string.
C19_TrueExtensionNullOrToken ==
    \A k \in 1..N :
        LET t == file[k].true_extension
        IN  IsNone(t) \/
            /\ Len(Val(t)) > 0
            /\ Lower(Val(t)) = Val(t)
            /\ Strip(Val(t)) = Val(t)

Others(id) == (1..N) \ {id}

AnyMime == UNION { MagicAnswers(e) : e \in ScanCatalogue }

\* C21: with the path available, a file whose bytes start with a ZIP
\* signature gets the result of detect_zip_subtype whether or not the
\* library is available and whatever the library answers, and so does a file
\* for which the library reports application/zip; the scan stores that
\* result.
C21_ContainerDisambiguationFirst ==
    /\ \A k \in 1..N :
         /\ Signature(file[k]) = "PK" =>
              \A hm \in BOOLEAN, mime \in AnyMime :
                  detect_file_type(file[k], TRUE, hm, mime) = detect_zip_subtype(file[k])
         /\ detect_file_type(file[k], TRUE, TRUE, Some(MimeZip)) = detect_zip_subtype(file[k])
    /\ \A k \in 1..Len(scan.visits) :
         LET vis == scan.visits[k]
             e == file[vis.id]
         IN  (vis.v.updated /\ (Signature(e) = "PK" \/ (HAVE_MAGIC /\ vis.mime = Some(MimeZip)))) =>
                 /\ vis.v.ext = detect_zip_subtype(e).ext
                 /\ vis.v.desc = Some(detect_zip_subtype(e).desc)
                 /\ e.true_extension = detect_zip_subtype(e).ext

C21_Witness ==
    /\ scan.pc = "done"
    /\ HAVE_MAGIC
    /\ Len(scan.visits) = 2
    /\ file[scan.visits[1].id].fmt = "ooxml"
    /\ scan.visits[1].mime = Some(MimeDocx)
    /\ scan.visits[1].v.desc = Some("Microsoft Word Open XML document (DOCX)")
    /\ file[scan.visits[2].id].fmt = "stubzip"
    /\ scan.visits[2].mime = Some(MimeZip)
    /\ scan.visits[2].v.ext = Some(Dot(Ext_docx))

\* C22: a scan is never aborted by a file it cannot sniff: a container that
\* cannot be opened as ZIP gets '.zip' and no error, every selected row is
\* visited once, in the order of the selection, with one callback invocation
\* each, and a row whose sniffing ended with an error keeps the true
\* extension it had.
C22_SniffFailureIsLocal ==
    /\ scan.pc # "aborted"
    /\ Len(scan.visits) = Len(scan.calls) \/ scan.rows = <<>>
    /\ \A k \in 1..Len(scan.visits) :
         LET vis == scan.visits[k]
             e == file[vis.id]
         IN  /\ vis.id = scan.rows[k]
             /\ scan.calls[k].idx = k
             /\ scan.calls[k].total = Len(scan.rows)
             /\ scan.calls[k].path = Some(e.path)
             /\ scan.calls[k].error = vis.v.error
             /\ (e.disk = "file" /\ e.fmt = "badzip") =>
                    /\ vis.v.ext = Some(<<".","z","i","p">>)
                    /\ IsNone(vis.v.error)
             /\ e.disk # "file" => ~IsNone(vis.v.error)
             /\ ~IsNone(vis.v.error) => e.true_extension = scan.before[vis.id]
    /\ (scan.pc = "done" /\ scan.rows # <<>>) => Len(scan.visits) = Len(scan.rows)
    /\ \A a, b \in 1..Len(scan.rows) : a # b => scan.rows[a] # scan.rows[b]
    /\ scan.pc = "row" => Len(scan.visits) = scan.idx - 1

C22_Witness ==
    /\ scan.pc = "done"
    /\ Len(scan.visits) = 2
    /\ file[scan.visits[1].id].disk = "unreadable"
    /\ ~IsNone(scan.visits[1].v.error)
    /\ file[scan.visits[1].id].true_extension = Some(Dot(Ext_docx))
    /\ file[scan.visits[2].id].fmt = "badzip"
    /\ scan.visits[2].v.desc = Some("ZIP-like file (invalid or unreadable as ZIP)")
    /\ file[scan.visits[2].id].true_extension = Some(<<".","z","i","p">>)

\* C26: with only_missing the scan selects exactly the rows whose true
\* extension is null or empty; a row whose true extension is non-empty is
\* not visited and keeps its value; a scan that follows a completed scan
\* visits exactly the rows that scan left null or empty.
C26_OnlyMissingSelectsNullOrEmpty ==
    (scan.runs >= 1 /\ scan.only_missing) =>
        /\ { scan.rows[k] : k \in 1..Len(scan.rows) }
             = { k \in 1..N : ~Truthy(scan.before[k]) }
        /\ \A k \in 1..N :
             Truthy(scan.before[k]) =>
                 /\ file[k].true_extension = scan.before[k]
                 /\ \A j \in 1..Len(scan.visits) : scan.visits[j].id # k
        /\ scan.runs >= 2 =>
             { scan.rows[k] : k \in 1..Len(scan.rows) } = scan.left
        /\ scan.pc = "done" =>
             { scan.visits[j].id : j \in 1..Len(scan.visits) }
               = { k \in 1..N : ~Truthy(scan.before[k]) }

C26_Witness ==
    /\ scan.pc = "done"
    /\ scan.only_missing
    /\ scan.runs = 2
    /\ N = 2
    /\ scan.left = {2}
    /\ Len(scan.visits) = 1
    /\ scan.visits[1].id = 2
    /\ file[2].true_extension = Some(<<>>)
    /\ Truthy(file[1].true_extension)

\* C23: in a run that follows a completed run over unchanged files, no
\* populate function is called for a file whose extraction succeeded in the
\* earlier run.
C23_CompletedWorkNotRedone ==
    stable =>
        \A k \in 1..Len(out) :
            (k <= Len(prev) /\ prev[k].id = out[k].id /\ IsSuccess(prev[k].status)) =>
                IsNone(out[k].fam)

NamedByToken(e, token) == [e EXCEPT !.path = Dir \o <<"f">> \o token]

\* C25: for a file routed by a true extension other than the suffix of its
\* path, the extractor takes the branch of the true extension: what it
\* extracts is what it extracts from the same content under a name with that
\* extension.
C25_ExtractorFollowsRoutedType ==
    \A k \in 1..Len(out) :
        LET e == file[out[k].id]
        IN  (/\ out[k].settled
             /\ out[k].branch = "ext"
             /\ ~IsNone(out[k].fam)
             /\ Truthy(e.true_extension)
             /\ out[k].token = e.true_extension
             /\ Lower(Suffix(e.path)) # Val(out[k].token)) =>
                Extract(Val(out[k].fam), e, ver[out[k].id]).rec
                  = Extract(Val(out[k].fam), NamedByToken(e, Val(out[k].token)), ver[out[k].id]).rec

\* The extension table: the keys of META_ROUTER that are extensions
ExtensionTable == UNION { ExtensionKeys[f] : f \in Families }

HasUnregisteredTrueExtension(e) ==
    NonBlank(e.true_extension) /\ Lower(Strip(Val(e.true_extension))) \notin ExtensionTable

\* C27 (as stated): a file whose true extension is non-empty and has no entry
\* in the extension table is recorded "SKIPPED (No Collector)" and no
\* populate function is called for it.
C27_UnregisteredTrueExtensionSkipped ==
    \A k \in 1..Len(out) :
        HasUnregisteredTrueExtension(file[out[k].id]) =>
            /\ out[k].status = StatusNoCollector
            /\ IsNone(out[k].fam)

\* C27 (amended): this holds for a file that reaches the extension lookup,
\* also when its declared extension is registered; a file whose name is on
\* the ignore list is recorded "SKIPPED (Ignored System File)", and a file
\* whose name is a literal-name key is dispatched by its name.
C27_UnregisteredSkippedInExtensionLookup ==
    \A k \in 1..Len(out) :
        LET e == file[out[k].id]
        IN  HasUnregisteredTrueExtension(e) =>
                CASE OnIgnoreList(e) ->
                       out[k].status = StatusIgnored /\ IsNone(out[k].fam)
                  [] ~OnIgnoreList(e) /\ HasLiteralName(e) ->
                       /\ out[k].branch = "name"
                       /\ out[k].fam = META_ROUTER(Lower(Basename(e.path)))
                  [] OTHER ->
                       /\ out[k].branch = "ext"
                       /\ out[k].token = Some(Lower(Strip(Val(e.true_extension))))
                       /\ out[k].status = StatusNoCollector
                       /\ IsNone(out[k].fam)
                       /\ out[k].settled
                       /\ RowsOf(view, out[k].id) = RowsOf(dbAtStart, out[k].id)

C27_Witness ==
    \E k \in 1..Len(out) :
        /\ out[k].branch = "ext"
        /\ out[k].status = StatusNoCollector
        /\ file[out[k].id].true_extension = Some(<<".","c","l","a","s","s">>)
        /\ file[out[k].id].decl_extension = Some(Ext_pdf)
        /\ ~IsNone(META_ROUTER(Dot(Val(file[out[k].id].decl_extension))))

\* The family tables other than the one of the populate function called
OtherFamilies(fam) == Families \ {fam}

StartLines(l) == SelectSeq(l, LAMBDA x : x.kind = "start")

\* C29: the log is truncated when a run starts: at every moment it holds
\* the header of one run at most, per-file lines of the current run only (in
\* number and content), at most one summary, which is the one of the current
\* run, and after a completed run over N >= 1 files exactly the lines of
\* that run.
C29_LogHoldsLastRunOnly ==
    /\ Len(StartLines(log)) <= 1
    /\ Len(FileLines(log)) <= Len(out)
    /\ \A k \in 1..Len(FileLines(log)) :
         /\ FileLines(log)[k].status = out[k].status
         /\ FileLines(log)[k].filename = Basename(file[out[k].id].path)
    /\ Len(SummaryLines(log)) <= 1
    /\ Len(SummaryLines(log)) = 1 => SummaryLines(log)[1].counts = counts
    /\ (RunEnded /\ N >= 1) => Len(log) = Len(Header) + N + 4
    /\ (RunEnded /\ N = 0) => Len(log) = Len(Header) + 1

C29_Witness ==
    /\ RunEnded
    /\ run = 2
    /\ N = 2
    /\ Len(prev) = 2
    /\ Len(StartLines(log)) = 1
    /\ Len(FileLines(log)) = 2
    /\ Len(log) = 9

\* What a line says, whoever wrote it
Said(l) == [k \in 1..Len(l) |-> [kind |-> l[k].kind, k |-> l[k].k]]

\* The log of one complete run of process p over the index
OwnLog(p) ==
    IF N = 0 THEN ConcHeader(p) \o <<LogLine(p, "message", 0)>>
    ELSE ConcHeader(p) \o [k \in 1..N |-> LogLine(p, "file", SelectRows(N)[k])] \o ConcClosing(p)

\* C30: when one of two concurrent runs ends, the log file reads as the
\* complete log of that run: header, the N per-file lines in ascending
\* identity order, closing lines with the summary.
C30_EachRunEndsWithItsLog ==
    \A p \in Workers :
        conc.w[p].pc = "done" => Said(conc.w[p].final) = Said(OwnLog(p))

====
